---- MODULE Spec2Model ----
(***************************************************************************)
(* Guest-manager bot (src/main.py): the guest store on disk, the QR        *)
(* issuer, the chat front-end and the webhook endpoint that drives them.   *)
(* Every webhook request is one process; requests may overlap (the Flask   *)
(* server is threaded and the code takes no lock), and every call that     *)
(* touches the disk or the chat platform may raise.                        *)
(***************************************************************************)
EXTENDS Integers, Sequences, FiniteSets, TLC

\* Largest number of entries the store is allowed to grow to in the model.
MaxGuests == 2
\* Largest number of name entries and of announcements that are counted.
MaxTally == 2

Users == {"u1", "u2"}
Reqs == {1, 2}
NoUser == "nobody"

GROUP_ID == "group"

(***************************************************************************)
(* Text.  A text is a sequence of glyphs; " " is the only whitespace.      *)
(***************************************************************************)
AddGuestLabel == <<"+", " ", "Add", " ", "Guest">>
ShowGuestsLabel == <<"#", " ", "Show", " ", "Guests">>
StartCommand == <<"/", "start">>

RECURSIVE LStrip(_)
LStrip(s) == IF s # <<>> /\ Head(s) = " " THEN LStrip(Tail(s)) ELSE s

RECURSIVE RStrip(_)
RStrip(s) ==
    IF s # <<>> /\ s[Len(s)] = " " THEN RStrip(SubSeq(s, 1, Len(s) - 1)) ELSE s

\* str.strip()
Strip(s) == RStrip(LStrip(s))

\* str.replace(' ', '_')
ReplaceSpaces(s) == [i \in 1..Len(s) |-> IF s[i] = " " THEN "_" ELSE s[i]]

\* sub occurs in s as a contiguous run
Contains(s, sub) ==
    \E i \in 0..(Len(s) - Len(sub)) : SubSeq(s, i + 1, i + Len(sub)) = sub

\* "\n".join(lines)
RECURSIVE Join(_)
Join(lines) ==
    IF lines = <<>> THEN <<>>
    ELSE IF Len(lines) = 1 THEN lines[1]
    ELSE lines[1] \o <<"\n">> \o Join(Tail(lines))

\* The texts a user sends.
NameTexts == { <<"a", " ", "b">>, <<"a", "_", "b">>, <<" ", "a">> }
Texts ==
    {AddGuestLabel, ShowGuestsLabel, <<" ">> \o AddGuestLabel, StartCommand,
     <<"/", "help">>} \cup NameTexts

\* filters.COMMAND: the message starts with a bot command
IsCommand(t) == t # <<>> /\ t[1] = "/"
\* CommandHandler("start")
IsStart(t) == Len(t) >= 2 /\ SubSeq(t, 1, 2) = StartCommand

(***************************************************************************)
(* The guest store.  The JSON object keeps its keys in order, so a mapping *)
(* is a sequence of entries with distinct names.                           *)
(***************************************************************************)
Entry(name, path, checked) ==
    [name |-> name, qr_file |-> path, checked_in |-> checked]

Keys(items) == {items[i].name : i \in 1..Len(items)}
Lookup(items, name) ==
    items[CHOOSE i \in 1..Len(items) : items[i].name = name]

\* mutant: the name goes into the path as it is
QrPathUnreplaced(name) == <<"qrcodes/">> \o name \o <<".png">>

QrPath(name) == <<"qrcodes/">> \o ReplaceSpaces(name) \o <<".png">>
QrData(name) == <<"Guest: ">> \o name
NewEntry(name) == Entry(name, QrPath(name), FALSE)

\* What guests.json holds: absent, a JSON object, text that is not JSON,
\* JSON that is not an object (an array), or bytes that are not UTF-8.
FileKinds == {"missing", "object", "unparseable", "array", "nonutf8"}
StoreFile(kind, items) == [kind |-> kind, items |-> items]
ObjectFile(items) == StoreFile("object", items)

\* A guest recorded before the bot started, checked in by hand.
PriorGuest == Entry(<<"z">>, QrPath(<<"z">>), TRUE)

\* load_guest_list: the value returned, or the exception raised
Dict(items) == [exc |-> "none", type |-> "dict", items |-> items]
\* mutant: text that is not JSON makes the load raise
load_guest_list_strict(f) ==
    IF f.kind = "object" THEN Dict(f.items)
    ELSE [exc |-> "JSONDecodeError", type |-> "none", items |-> <<>>]

load_guest_list(f) ==
    CASE f.kind = "missing" -> Dict(<<>>)
      [] f.kind = "object" -> Dict(f.items)
      [] f.kind = "unparseable" -> Dict(<<>>)
      [] f.kind = "array" -> [exc |-> "none", type |-> "list", items |-> <<>>]
         \* a non-empty JSON array such as [1]: truthy, and no dict
      [] f.kind = "nonutf8" ->
            [exc |-> "UnicodeDecodeError", type |-> "none", items |-> <<>>]

NoGuests == [exc |-> "none", type |-> "none", items |-> <<>>]

\* save_guest_list: the file after a completed json.dump
save_guest_list(items) == ObjectFile(items)

\* mutant: the save keeps what is on disk and adds what is new to it
SavedFileMerged(f, items) ==
    ObjectFile(f.items \o
        SelectSeq(items, LAMBDA e : e.name \notin Keys(f.items)))

\* mutant: the save leaves the file as it is
SavedFileUnwritten(f, items) == f

\* generate_qr's save of the mapping it loaded, lines 93-94: what is on
\* disk (f) is not read again
SavedFile(f, items) == save_guest_list(items)

\* What a save that raises leaves behind: open() failed and the file is
\* untouched, or open(..., "w") truncated it and the dump did not finish.
FailedSaveFiles(f) == {f, StoreFile("unparseable", <<>>)}

\* mutant: the lookup never finds the name
NameInNever(name, g) == FALSE

\* `name in guests`
NameIn(name, g) == g.type = "dict" /\ name \in Keys(g.items)

(***************************************************************************)
(* Outbound messages.                                                      *)
(***************************************************************************)
Message(chat, type, body) == [chat |-> chat, type |-> type, body |-> body]

WelcomeText == <<"Welcome to Guest Manager!">>
EnterNameText == <<"Enter guest name:">>
NoGuestsText == <<"No guests found.">>
InvalidOptionText == <<"Invalid option.">>
CheckedInMarker == <<"[v]", " ", "Checked", " ", "In">>
NotCheckedInMarker == <<"[x]", " ", "Not", " ", "Checked", " ", "In">>

AddedText(name) == <<"ok", " ">> \o name \o <<" added! Here is the QR Code.">>
GroupText(name) ==
    <<"Guest Added: ">> \o name \o <<" | Status: Not Checked In">>

\* mutant: the markers are swapped
GuestLineSwapped(e) ==
    e.name \o <<" - ">> \o
        (IF e.checked_in THEN NotCheckedInMarker ELSE CheckedInMarker)

GuestLine(e) ==
    e.name \o <<" - ">> \o
        (IF e.checked_in THEN CheckedInMarker ELSE NotCheckedInMarker)
GuestListText(items) ==
    <<"Guest List:", "\n">> \o
        Join([i \in 1..Len(items) |-> GuestLine(items[i])])

\* the reply to "Show Guests" for a loaded dict
ShowGuestsText(items) ==
    IF items = <<>> THEN NoGuestsText ELSE GuestListText(items)

(***************************************************************************)
(* The webhook's answer: 500 from either except clause, 200 otherwise.     *)
(***************************************************************************)
\* mutant: the second except clause answers 200
WebhookStatusLenient(exc) == IF exc = "KeyError" THEN 500 ELSE 200

WebhookStatus(exc) == IF exc = "none" THEN 200 ELSE 500

(***************************************************************************)
(* State.                                                                  *)
(***************************************************************************)
VARIABLES
    file,       \* guests.json
    images,     \* qrcodes/: path -> the text the image encodes
    awaiting,   \* context.user_data["awaiting_name"], per user
    pc,         \* per request: where its handling stands
    update,     \* per request: the update it carries
    guests,     \* per request: generate_qr's loaded mapping
    qr_file,    \* per request: the path generate_qr works with
    returned,   \* the exchange the last step completed, if it completed one
    scen,       \* observer: how far the run matches start, Add Guest, name
    tally       \* observer: name entries completed and announcements sent

vars ==
    <<file, images, awaiting, pc, update, guests, qr_file, returned, scen,
      tally>>

NoPath == <<>>
NoReq == 0
NoUpdate == [kind |-> "none", user |-> NoUser, text |-> <<>>]
MessageUpdate(u, t) == [kind |-> "message", user |-> u, text |-> t]
OtherUpdate(k) == [kind |-> k, user |-> NoUser, text |-> <<>>]

\* One webhook exchange: the update, the messages sent while handling it,
\* whether the handler ran to its end, the exception the webhook's try block
\* saw and the HTTP status returned.
Exchange(r, upd, msgs, outcome, exc) ==
    [req |-> r, update |-> upd, sent |-> msgs, outcome |-> outcome,
     raised |-> exc, status |-> WebhookStatus(exc)]
NoExchange ==
    [req |-> NoReq, update |-> NoUpdate, sent |-> <<>>, outcome |-> "none",
     raised |-> "none", status |-> 0]

InitFiles ==
    {StoreFile("missing", <<>>), ObjectFile(<<>>), ObjectFile(<<PriorGuest>>),
     StoreFile("unparseable", <<>>), StoreFile("array", <<>>),
     StoreFile("nonutf8", <<>>)}

\* the images of the entries of a store
ImagesOf(items) ==
    [p \in {items[i].qr_file : i \in 1..Len(items)} |->
        QrData(items[CHOOSE i \in 1..Len(items) : items[i].qr_file = p].name)]

ScenFresh == [stage |-> "fresh", user |-> NoUser, req |-> NoReq, text |-> <<>>]
ScenOff == [stage |-> "off", user |-> NoUser, req |-> NoReq, text |-> <<>>]

\* the store is empty: no file yet, or a file holding {}
EmptyStore(f) == f.kind \in {"missing", "object"} /\ f.items = <<>>

\* the counting observer, switched off or starting to count
TallyOff == [on |-> FALSE, entered |-> 0, announced |-> 0]
TallyZero == [on |-> TRUE, entered |-> 0, announced |-> 0]

InitProgram ==
    /\ file \in InitFiles
    /\ images = ImagesOf(file.items)
    /\ awaiting = [u \in Users |-> FALSE]
    /\ pc = [r \in Reqs |-> "idle"]
    /\ update = [r \in Reqs |-> NoUpdate]
    /\ guests = [r \in Reqs |-> NoGuests]
    /\ qr_file = [r \in Reqs |-> NoPath]
    /\ returned = NoExchange
    /\ scen = IF EmptyStore(file) THEN ScenFresh ELSE ScenOff

Init == InitProgram /\ tally = TallyOff

(***************************************************************************)
(* Helpers of the actions.                                                 *)
(***************************************************************************)
\* the handler's text: update.message.text.strip()
Text(r) == Strip(update[r].text)
Chat(r) == update[r].user

\* The observer of the run [/start] -> [Add Guest] -> [N] of one user on a
\* store that starts empty: the stage reached, or "off" once the run is
\* anything else.  `ok` says that the handler of the update ran to its end.
ScenNext(r, upd, ok) ==
    CASE scen.stage = "fresh" /\ upd.kind = "message"
            /\ upd.text = StartCommand /\ ok
            -> [stage |-> "started", user |-> upd.user, req |-> NoReq,
                text |-> <<>>]
      [] scen.stage = "started" /\ upd.kind = "message"
            /\ upd.user = scen.user /\ upd.text = AddGuestLabel /\ ok
            -> [stage |-> "asked", user |-> upd.user, req |-> NoReq,
                text |-> <<>>]
      [] scen.stage = "asked" /\ upd.kind = "message"
            /\ upd.user = scen.user
            /\ upd.text \notin {AddGuestLabel, ShowGuestsLabel}
            -> [stage |-> "named", user |-> upd.user, req |-> r,
                text |-> upd.text]
      [] OTHER -> ScenOff

\* Request r takes the update: r is the first request that handles none.
Receive(r, upd, ok) ==
    /\ pc[r] = "idle"
    /\ \A q \in Reqs : q < r => pc[q] # "idle"
    /\ scen' = ScenNext(r, upd, ok)

\* The counts once request r has returned with msgs sent: one more name
\* entry when the handler of a name ran to its end, and the announcements
\* among msgs.
Tallied(r, msgs, outcome) ==
    IF tally.on
    THEN [on |-> TRUE,
          entered |-> tally.entered +
              (IF pc[r] = "reply" /\ outcome = "done" THEN 1 ELSE 0),
          announced |-> tally.announced +
              Cardinality({i \in 1..Len(msgs) : msgs[i].chat = GROUP_ID})]
    ELSE tally

\* The webhook returns for update upd, having sent msgs; exc is the
\* exception its try block saw.  The request's locals are gone.
Return(r, upd, msgs, outcome, exc) ==
    /\ returned' = Exchange(r, upd, msgs, outcome, exc)
    /\ tally' = Tallied(r, msgs, outcome)
    /\ tally'.entered <= MaxTally /\ tally'.announced <= MaxTally
    /\ pc' = [pc EXCEPT ![r] = "idle"]
    /\ update' = [update EXCEPT ![r] = NoUpdate]
    /\ guests' = [guests EXCEPT ![r] = NoGuests]
    /\ qr_file' = [qr_file EXCEPT ![r] = NoPath]

\* A handler raised inside app.process_update, which either deals with the
\* exception itself or lets it reach the webhook's except clause.
HandlerRaised(r, upd, msgs) ==
    \E exc \in {"none", "Exception"} : Return(r, upd, msgs, "failed", exc)

\* The request goes on to step `next` of its handler.
Goto(r, next) ==
    /\ pc' = [pc EXCEPT ![r] = next]
    /\ returned' = NoExchange
    /\ UNCHANGED tally

(***************************************************************************)
(* webhook, lines 38-68: updates that reach no handler.                    *)
(***************************************************************************)
\* request.get_json() raises, or Update.de_json raises (a KeyError or not).
WebhookBadUpdate(r) ==
    /\ \E k \in {"invalid", "malformed"}, exc \in {"KeyError", "Exception"} :
          /\ k = "invalid" => exc = "Exception"
          /\ Receive(r, OtherUpdate(k), FALSE)
          /\ Return(r, OtherUpdate(k), <<>>, "failed", exc)
    /\ UNCHANGED <<file, images, awaiting>>

\* `if update:` is false, or the update has no "message" field.
WebhookNoMessage(r) ==
    /\ \E k \in {"empty", "nomessage"} :
          /\ Receive(r, OtherUpdate(k), TRUE)
          /\ Return(r, OtherUpdate(k), <<>>, "done", "none")
    /\ UNCHANGED <<file, images, awaiting>>

\* A command other than /start: no handler matches it.
UnhandledCommand(r, u, t) ==
    /\ IsCommand(t) /\ ~IsStart(t)
    /\ Receive(r, MessageUpdate(u, t), TRUE)
    /\ Return(r, MessageUpdate(u, t), <<>>, "done", "none")
    /\ UNCHANGED <<file, images, awaiting>>

\* A handler that sends one reply and returns, or raises in sending it.
ReplyOnce(r, u, t, body) ==
    \/ /\ Receive(r, MessageUpdate(u, t), TRUE)
       /\ Return(r, MessageUpdate(u, t), <<Message(u, "text", body)>>,
                 "done", "none")
    \/ /\ Receive(r, MessageUpdate(u, t), FALSE)
       /\ HandlerRaised(r, MessageUpdate(u, t), <<>>)

(***************************************************************************)
(* start, lines 101-109.                                                   *)
(***************************************************************************)
Start(r, u, t) ==
    /\ IsStart(t)
    /\ ReplyOnce(r, u, t, WelcomeText)
    /\ UNCHANGED <<file, images, awaiting>>

(***************************************************************************)
(* handle_message, lines 111-134.                                          *)
(***************************************************************************)
\* mutant: no text is a menu label
IsMenuLabelNever(text) == FALSE

IsMenuLabel(text) == text \in {AddGuestLabel, ShowGuestsLabel}

\* mutant: the flag survives the name entry
AwaitingKept(u) == awaiting

\* mutant: one flag for all users
AwaitingSetForAll(u) == [v \in Users |-> TRUE]

\* line 116 and line 127
AwaitingSet(u) == [awaiting EXCEPT ![u] = TRUE]
AwaitingCleared(u) == [awaiting EXCEPT ![u] = FALSE]

\* lines 114-116: the flag is set once the prompt has been sent
AddGuest(r, u, t) ==
    /\ ~IsCommand(t)
    /\ Strip(t) = AddGuestLabel
    /\ ReplyOnce(r, u, t, EnterNameText)
    /\ awaiting' =
          IF returned'.outcome = "done" THEN AwaitingSet(u) ELSE awaiting
    /\ UNCHANGED <<file, images>>

\* lines 117-125
ShowGuests(r, u, t) ==
    /\ ~IsCommand(t)
    /\ Strip(t) = ShowGuestsLabel
    /\ LET g == load_guest_list(file) IN
          \/ /\ g.exc = "none" /\ g.type = "dict"
             /\ ReplyOnce(r, u, t, ShowGuestsText(g.items))
          \/ \* the load raises, or a list has no items()
             /\ ~(g.exc = "none" /\ g.type = "dict")
             /\ Receive(r, MessageUpdate(u, t), FALSE)
             /\ HandlerRaised(r, MessageUpdate(u, t), <<>>)
    /\ UNCHANGED <<file, images, awaiting>>

\* lines 126-128 and generate_qr up to its lookup, lines 84-86
NameEntry(r, u, t) ==
    /\ ~IsCommand(t)
    /\ ~IsMenuLabel(Strip(t))
    /\ awaiting[u]
    /\ awaiting' = AwaitingCleared(u)
    /\ Receive(r, MessageUpdate(u, t), TRUE)
    /\ LET g == load_guest_list(file)
           name == Strip(t)
       IN  \/ /\ g.exc # "none"
              /\ HandlerRaised(r, MessageUpdate(u, t), <<>>)
           \/ /\ g.exc = "none"
              /\ NameIn(name, g) \/ Len(g.items) < MaxGuests
              /\ update' = [update EXCEPT ![r] = MessageUpdate(u, t)]
              /\ guests' = [guests EXCEPT ![r] = g]
              /\ qr_file' =
                    [qr_file EXCEPT ![r] =
                        IF NameIn(name, g) THEN Lookup(g.items, name).qr_file
                        ELSE NoPath]
              /\ Goto(r, IF NameIn(name, g) THEN "reply" ELSE "image")
    /\ UNCHANGED <<file, images>>

\* lines 133-134
InvalidOption(r, u, t) ==
    /\ ~IsCommand(t)
    /\ ~IsMenuLabel(Strip(t))
    /\ ~awaiting[u]
    /\ ReplyOnce(r, u, t, InvalidOptionText)
    /\ UNCHANGED <<file, images, awaiting>>

(***************************************************************************)
(* generate_qr after a miss, lines 88-95.                                  *)
(***************************************************************************)
\* mutant: no image is written
WithImageSkipped(imgs, path, name) == imgs

\* mutant: an image that exists is not written again
WithImageKept(imgs, path, name) ==
    [p \in DOMAIN imgs \cup {path} |->
        IF p \in DOMAIN imgs THEN imgs[p] ELSE QrData(name)]

\* the directory after qr_code.save(path) for the image of `name`
WithImage(imgs, path, name) ==
    [p \in DOMAIN imgs \cup {path} |->
        IF p = path THEN QrData(name) ELSE imgs[p]]

\* lines 88-91
WriteImage(r) ==
    /\ pc[r] = "image"
    /\ \/ /\ images' = WithImage(images, QrPath(Text(r)), Text(r))
          /\ qr_file' = [qr_file EXCEPT ![r] = QrPath(Text(r))]
          /\ Goto(r, "save")
          /\ UNCHANGED <<update, guests>>
       \/ /\ UNCHANGED images
          /\ HandlerRaised(r, update[r], <<>>)
    /\ UNCHANGED <<file, awaiting, scen>>

\* mutant: the new entry replaces the mapping
WithGuestOnly(items, name, path) == <<Entry(name, path, FALSE)>>

\* mutant: the new entry is checked in
WithGuestCheckedIn(items, name, path) == Append(items, Entry(name, path, TRUE))

\* guests[name] = {...}: the mapping that line 94 saves
WithGuest(items, name, path) == Append(items, Entry(name, path, FALSE))

\* lines 93-95
SaveStore(r) ==
    /\ pc[r] = "save"
    /\ \/ /\ guests[r].type = "dict"
          /\ file' =
                SavedFile(file, WithGuest(guests[r].items, Text(r), qr_file[r]))
          /\ Goto(r, "reply")
          /\ UNCHANGED <<update, guests, qr_file>>
       \/ \* a list takes no string index
          /\ guests[r].type # "dict"
          /\ UNCHANGED file
          /\ HandlerRaised(r, update[r], <<>>)
       \/ \* the save raises
          /\ guests[r].type = "dict"
          /\ file' \in FailedSaveFiles(file)
          /\ HandlerRaised(r, update[r], <<>>)
    /\ UNCHANGED <<images, awaiting, scen>>

(***************************************************************************)
(* handle_message after generate_qr, lines 129-132, and                    *)
(* save_guest_to_group, lines 97-99.  The three sends touch nothing that   *)
(* another request writes (an image, once written, stays), so they are one *)
(* step: the first n of them succeed and, when n < 3, the next one raises. *)
(***************************************************************************)
\* mutant: the group hears of the guest before the user hears anything
RepliesAnnounceFirst(chat, name, path) ==
    << Message(GROUP_ID, "text", GroupText(name)),
       Message(chat, "text", AddedText(name)),
       Message(chat, "photo", path) >>

\* mutant: the group hears of the guest before the user gets the image
RepliesGroupFirst(chat, name, path) ==
    << Message(chat, "text", AddedText(name)),
       Message(GROUP_ID, "text", GroupText(name)),
       Message(chat, "photo", path) >>

Replies(chat, name, path) ==
    << Message(chat, "text", AddedText(name)),
       Message(chat, "photo", path),
       Message(GROUP_ID, "text", GroupText(name)) >>

Reply(r) ==
    /\ pc[r] = "reply"
    /\ \E n \in 0..3 :
          LET msgs == SubSeq(Replies(Chat(r), Text(r), qr_file[r]), 1, n) IN
          \* open(qr_file, "rb") needs the file
          /\ n >= 2 => qr_file[r] \in DOMAIN images
          /\ \/ /\ n = 3
                /\ Return(r, update[r], msgs, "done", "none")
             \/ /\ n < 3
                /\ HandlerRaised(r, update[r], msgs)
    /\ UNCHANGED <<file, images, awaiting, scen>>

(***************************************************************************)
(* Specifications.                                                         *)
(***************************************************************************)
\* a request arrives
Arrive(r) ==
    \/ WebhookBadUpdate(r)
    \/ WebhookNoMessage(r)
    \/ \E u \in Users, t \in Texts :
          \/ UnhandledCommand(r, u, t)
          \/ Start(r, u, t)
          \/ AddGuest(r, u, t)
          \/ ShowGuests(r, u, t)
          \/ NameEntry(r, u, t)
          \/ InvalidOption(r, u, t)

\* a request in the middle of an add goes on
Continue(r) ==
    \/ WriteImage(r)
    \/ SaveStore(r)
    \/ Reply(r)

Next == \E r \in Reqs : Arrive(r) \/ Continue(r)

Spec == Init /\ [][Next]_vars

\* Updates processed one at a time: none arrives while another is handled.
Quiet == \A q \in Reqs : pc[q] = "idle"
NextSerial == \E r \in Reqs : (Quiet /\ Arrive(r)) \/ Continue(r)
SpecSerial == Init /\ [][NextSerial]_vars

\* Overlapping adds on a store that starts well-formed: the users only ask to
\* add and name guests, and nothing keeps their requests apart.
OverlapTexts == {AddGuestLabel, <<"a", " ", "b">>, <<"a", "_", "b">>}
ArriveAdd(r) ==
    \E u \in Users, t \in OverlapTexts : AddGuest(r, u, t) \/ NameEntry(r, u, t)
NextOverlap == \E r \in Reqs : ArriveAdd(r) \/ Continue(r)
InitOverlap == Init /\ file.kind \in {"missing", "object"}
SpecOverlap == InitOverlap /\ [][NextOverlap]_vars

\* Updates processed one at a time, with the name entries and the
\* announcements counted.
InitTally == InitProgram /\ tally = TallyZero
SpecTally == InitTally /\ [][NextSerial]_vars

(***************************************************************************)
(* Properties.                                                             *)
(***************************************************************************)
\* A step in which user u's message with text t is taken up: the update is
\* the one request r goes on with or the one it has answered.
MessageFrom(r, u, t) ==
    /\ pc[r] = "idle"
    /\ MessageUpdate(u, t) \in {update'[r], returned'.update}
    /\ \/ UnhandledCommand(r, u, t)
       \/ Start(r, u, t)
       \/ AddGuest(r, u, t)
       \/ ShowGuests(r, u, t)
       \/ NameEntry(r, u, t)
       \/ InvalidOption(r, u, t)

\* C1 as stated: once a user's awaiting_name flag is set, the next text
\* message from that user clears it, whatever the message says.
C1_AnyTextClearsFlag ==
    [][\A r \in Reqs, u \in Users, t \in Texts :
          (awaiting[u] /\ MessageFrom(r, u, t)) => ~awaiting'[u]]_vars

\* C1 amended: once a user's awaiting_name flag is set, the next text
\* message from that user clears it iff the message is no command and its
\* trimmed text is no menu label; a command or a menu label leaves it set.
C1_NonMenuTextClearsFlag ==
    [][\A r \in Reqs, u \in Users, t \in Texts :
          (awaiting[u] /\ MessageFrom(r, u, t)) =>
              (awaiting'[u] <=> (IsCommand(t) \/ IsMenuLabel(Strip(t))))]_vars

\* A name entry is under way and its sender's flag is cleared.
C1_Witness ==
    \E r \in Reqs : pc[r] \in {"image", "save", "reply"} /\ ~awaiting[Chat(r)]

\* Request r is past generate_qr, which found its name in the store
\* (Hit) or did not and has saved it (Miss).
Hit(r) == pc[r] = "reply" /\ NameIn(Text(r), guests[r])
Miss(r) == pc[r] = "reply" /\ ~NameIn(Text(r), guests[r])

\* C2: with updates taken one at a time, once generate_qr(name) has returned
\* for a name that was no key of the store, the persisted store is the store
\* it loaded plus exactly one entry, keyed by name, with checked_in = false
\* and qr_file = "qrcodes/" + name with spaces as "_" + ".png"; that path is
\* what it returns, an image exists there, and no key occurs twice.
C2_NewNameAddsOneEntry ==
    \A r \in Reqs :
        Miss(r) =>
            LET name == Text(r)
                path == <<"qrcodes/">> \o ReplaceSpaces(name) \o <<".png">>
            IN  /\ name \notin Keys(guests[r].items)
                /\ file.kind = "object"
                /\ Len(file.items) = Len(guests[r].items) + 1
                /\ SubSeq(file.items, 1, Len(guests[r].items)) = guests[r].items
                /\ file.items[Len(file.items)] =
                      [name |-> name, qr_file |-> path, checked_in |-> FALSE]
                /\ Cardinality(Keys(file.items)) = Len(file.items)
                /\ qr_file[r] = path
                /\ path \in DOMAIN images

\* generate_qr has added a name with a space in it to a store that held
\* another guest.
C2_Witness ==
    \E r \in Reqs :
        /\ Miss(r)
        /\ guests[r].items # <<>>
        /\ \E i \in 1..Len(Text(r)) : Text(r)[i] = " "

\* C3: with updates taken one at a time, generate_qr for a name that is
\* already a key of the store returns the path of the first call, the one
\* derived from the name, and changes neither the store file nor any image:
\* nothing is regenerated or rewritten, and no key is duplicated.
C3_SameNameIsIdempotent ==
    [][\A r \in Reqs, u \in Users, t \in Texts :
          (NameEntry(r, u, t) /\ file.kind = "object"
              /\ Strip(t) \in Keys(file.items)) =>
                /\ pc'[r] = "reply"
                /\ qr_file'[r] = QrPath(Strip(t))
                /\ qr_file'[r] = Lookup(file.items, Strip(t)).qr_file
                /\ file' = file
                /\ images' = images
                /\ Cardinality(Keys(file'.items)) = Len(file'.items)]_vars

\* generate_qr has returned the stored path of a name that was added before.
C3_Witness == \E r \in Reqs : Hit(r) /\ qr_file[r] = QrPath(Text(r))

\* C4 as stated: load_guest_list returns an empty mapping, and does not
\* raise, whenever the store file is missing or holds anything but a JSON
\* object.
C4_LoadToleratesAnyFile ==
    file.kind # "object" => load_guest_list(file) = Dict(<<>>)

\* The exchange just completed ran its handler to the end.
Completed == returned.outcome = "done"

RECURSIVE SplitLines(_)
SplitLines(s) ==
    IF \E i \in 1..Len(s) : s[i] = "\n"
    THEN LET i == CHOOSE k \in 1..Len(s) :
                      s[k] = "\n" /\ \A j \in 1..(k - 1) : s[j] # "\n"
         IN  <<SubSeq(s, 1, i - 1)>> \o SplitLines(SubSeq(s, i + 1, Len(s)))
    ELSE <<s>>

ShowGuestsCompleted ==
    /\ Completed
    /\ returned.update.kind = "message"
    /\ ~IsCommand(returned.update.text)
    /\ Strip(returned.update.text) = ShowGuestsLabel

\* C6: with updates taken one at a time, the one reply to "Show Guests" is
\* "No guests found." exactly when the loaded store is empty; otherwise it
\* is a heading and one line per entry, and every key has exactly one line,
\* which ends in the "Checked In" marker iff its checked_in is true and in
\* the "Not Checked In" marker otherwise.
C6_ShowGuestsListsStore ==
    ShowGuestsCompleted =>
        LET store == load_guest_list(file).items
            body == returned.sent[1].body
            lines == SplitLines(body)
            LinesOf(k) ==
                {j \in 2..Len(lines) :
                    lines[j] \in {k \o <<" - ">> \o CheckedInMarker,
                                  k \o <<" - ">> \o NotCheckedInMarker}}
        IN  /\ Len(returned.sent) = 1
            /\ returned.sent[1].chat = returned.update.user
            /\ (body = NoGuestsText) <=> (store = <<>>)
            /\ store # <<>> =>
                  /\ Len(lines) = Len(store) + 1
                  /\ \A i \in 1..Len(store) :
                        /\ Cardinality(LinesOf(store[i].name)) = 1
                        /\ \A j \in LinesOf(store[i].name) :
                              lines[j] = store[i].name \o <<" - ">> \o
                                  (IF store[i].checked_in THEN CheckedInMarker
                                   ELSE NotCheckedInMarker)

\* "Show Guests" has listed a store with a guest who is checked in and one
\* who is not.
C6_Witness ==
    /\ ShowGuestsCompleted
    /\ file.kind = "object"
    /\ \E i, j \in 1..Len(file.items) :
          file.items[i].checked_in /\ ~file.items[j].checked_in

\* The last step completed an exchange.
Answered == returned.outcome # "none"

\* C7 as stated: the webhook answers 200 when the update was processed, 500
\* when the payload has no "message" field or an exception was raised, and
\* nothing else.
C7_NoMessageIs500 ==
    Answered =>
        /\ returned.status \in {200, 500}
        /\ returned.update.kind = "nomessage" => returned.status = 500
        /\ returned.raised # "none" => returned.status = 500
        /\ Completed /\ returned.update.kind = "message" => returned.status = 200

\* C7 amended: the webhook answers 500 exactly when an exception (a KeyError
\* for a missing key, or any other) is raised inside its try block, and 200
\* otherwise: when the handler ran to its end, and also when the payload is
\* empty or has no "message" field; it answers nothing else.
C7_StatusFollowsException ==
    Answered =>
        /\ returned.status \in {200, 500}
        /\ returned.status = 500 <=> returned.raised # "none"
        /\ returned.update.kind \in {"empty", "nomessage"} =>
              returned.status = 200
        /\ returned.update.kind \in {"invalid", "malformed"} =>
              returned.status = 500
        /\ Completed => returned.status = 200

\* A payload without a "message" field has been answered with 200.
C7_Witness ==
    returned.update.kind = "nomessage" /\ returned.status = 200

\* Every entry of the store file before the step is in it after the step.
EntriesKept ==
    \A i \in 1..Len(file.items) :
        \E j \in 1..Len(file'.items) : file'.items[j] = file.items[i]

TornSave ==
    \E r \in Reqs : pc[r] = "save" /\ pc'[r] = "idle" /\ file' # file

C9_SaveOverwritesWholesale ==
    [][\A r \in Reqs :
          (pc[r] = "save" /\ pc'[r] = "reply") =>
              file' = ObjectFile(Append(guests[r].items,
                          [name |-> Text(r), qr_file |-> qr_file[r],
                           checked_in |-> FALSE]))]_vars

\* Two requests loaded the same store, both saved a name of their own, and
\* the store holds only one of the two names.
C9_Witness ==
    \E r, q \in Reqs :
        /\ r # q /\ Miss(r) /\ Miss(q)
        /\ guests[r] = guests[q]
        /\ Text(r) # Text(q)
        /\ file = ObjectFile(Append(guests[q].items, NewEntry(Text(q))))
        /\ Text(r) \notin Keys(file.items)
        /\ qr_file[r] \in DOMAIN images /\ qr_file[q] \in DOMAIN images

\* C10: every entry the program writes has checked_in = false and an entry
\* that was in the store before keeps its value, so a store that started
\* empty has checked_in = false for every guest.
C10_CheckedInNeverSet ==
    \A i \in 1..Len(file.items) :
        IF file.items[i].name = PriorGuest.name
        THEN file.items[i] = PriorGuest
        ELSE ~file.items[i].checked_in

\* Two guests have been added to a store that started empty.
C10_Witness ==
    /\ file.kind = "object"
    /\ Len(file.items) >= 2
    /\ \A i \in 1..Len(file.items) : file.items[i].name # PriorGuest.name

\* Request r's name entry ends in this step because a reply raised.
ReplyFails(r) ==
    pc[r] = "reply" /\ returned'.req = r /\ returned'.outcome = "failed"

\* C11: with updates taken one at a time, when the image of a new name N has
\* been written and the store saved and then the confirmation, the image
\* reply or the group announcement raises, the failing step leaves the store
\* file and the images as they are, N is still a key of the store with its
\* entry, and the request ends there: whatever was sent stays sent, nothing
\* is sent again and the sender is not asked again.
C11_FailedReplyKeepsGuest ==
    [][\A r \in Reqs :
          (Miss(r) /\ ReplyFails(r)) =>
              /\ file' = file /\ images' = images
              /\ file'.kind = "object"
              /\ Text(r) \in Keys(file'.items)
              /\ Lookup(file'.items, Text(r)) =
                    [name |-> Text(r), qr_file |-> qr_file[r],
                     checked_in |-> FALSE]
              /\ qr_file[r] \in DOMAIN images'
              /\ pc'[r] = "idle"
              /\ Len(returned'.sent) < 3
              /\ returned'.sent =
                    SubSeq(Replies(Chat(r), Text(r), qr_file[r]), 1,
                           Len(returned'.sent))
              /\ ~awaiting'[Chat(r)]]_vars

\* The run start, Add Guest, name on an empty store got its confirmation and
\* its image, the group announcement raised, and the name is in the store.
C11_Witness ==
    /\ scen.stage = "named"
    /\ returned.outcome = "failed"
    /\ Len(returned.sent) = 2
    /\ file = ObjectFile(<<NewEntry(Strip(scen.text))>>)

\* C12: images are never deleted and generate_qr writes the image before it
\* saves the store, so, also with overlapping requests and with failing
\* image writes and saves, a request that is about to save has its image on
\* disk under the path it is about to record, and every entry of the store
\* file has an image at its qr_file.
C12_ImageBeforeKey ==
    /\ \A r \in Reqs :
          pc[r] = "save" =>
              /\ qr_file[r] = QrPath(Text(r))
              /\ qr_file[r] \in DOMAIN images
    /\ \A i \in 1..Len(file.items) : file.items[i].qr_file \in DOMAIN images

\* A request has written its image and not yet saved its name, while the
\* store holds a name that another request added.
C12_Witness ==
    \E r \in Reqs :
        /\ pc[r] = "save"
        /\ qr_file[r] \in DOMAIN images
        /\ file.kind = "object"
        /\ Text(r) \notin Keys(file.items)
        /\ \E i \in 1..Len(file.items) :
              /\ file.items[i].name # PriorGuest.name
              /\ file.items[i].qr_file \in DOMAIN images

\* C13: with updates taken one at a time, when a user whose awaiting_name
\* flag is set sends a text that is, once trimmed, "Add Guest" or "Show
\* Guests", the step that handles it runs that menu command (its one reply
\* is the prompt for a name or the guest list, when the handler runs to its
\* end), starts no QR issue, leaves the store file and the images as they
\* are, sends nothing to the group, and the user's flag is still set.
C13_MenuLabelIsNoName ==
    [][\A r \in Reqs, u \in Users, t \in Texts :
          (awaiting[u] /\ ~IsCommand(t)
              /\ Strip(t) \in {AddGuestLabel, ShowGuestsLabel}
              /\ MessageFrom(r, u, t)) =>
                /\ file' = file /\ images' = images
                /\ pc'[r] = "idle" /\ returned'.req = r
                /\ \A i \in 1..Len(returned'.sent) :
                      returned'.sent[i].chat # GROUP_ID
                /\ returned'.outcome = "done" =>
                      returned'.sent =
                          <<[chat |-> u, type |-> "text",
                             body |-> IF Strip(t) = AddGuestLabel
                                      THEN EnterNameText
                                      ELSE ShowGuestsText(
                                               load_guest_list(file).items)]>>
                /\ awaiting'[u]]_vars

\* "Show Guests" from a user who was asked for a name has been answered,
\* and the user is still asked for a name.
C13_Witness ==
    /\ ShowGuestsCompleted
    /\ Len(returned.sent) = 1
    /\ awaiting[returned.update.user]

\* C14: the awaiting_name flag is per user.  With the messages of several
\* users interleaved in any order (updates taken one at a time): a user's
\* flag becomes set only in a step that handles that user's own "Add
\* Guest"; a text that is no command and no menu label, from a user whose
\* flag is not set, is answered with "Invalid option." (when the reply goes
\* out), starts no QR issue, changes neither the store file nor the images
\* and leaves every user's flag as it is; and a QR issue starts only for a
\* text whose own sender's flag is set.
C14_FlagIsPerUser ==
    [][/\ \A u \in Users :
             (~awaiting[u] /\ awaiting'[u]) =>
                 \E r \in Reqs, t \in Texts : AddGuest(r, u, t)
       /\ \A r \in Reqs, u \in Users, t \in Texts :
             (~awaiting[u] /\ ~IsCommand(t)
                 /\ Strip(t) \notin {AddGuestLabel, ShowGuestsLabel}
                 /\ MessageFrom(r, u, t)) =>
                   /\ file' = file /\ images' = images
                   /\ awaiting' = awaiting
                   /\ pc'[r] = "idle" /\ returned'.req = r
                   /\ returned'.outcome = "done" =>
                         returned'.sent =
                             <<[chat |-> u, type |-> "text",
                                body |-> InvalidOptionText]>>
                   /\ returned'.outcome # "done" => returned'.sent = <<>>
       /\ \A r \in Reqs :
             (pc[r] = "idle" /\ pc'[r] # "idle") =>
                 /\ update'[r].kind = "message"
                 /\ awaiting[update'[r].user]]_vars

\* A user has been told "Invalid option." for a name while another user is
\* asked for a name.
C14_Witness ==
    /\ Completed
    /\ returned.update.kind = "message"
    /\ returned.sent =
          <<[chat |-> returned.update.user, type |-> "text",
             body |-> InvalidOptionText]>>
    /\ ~awaiting[returned.update.user]
    /\ \E a \in Users : a # returned.update.user /\ awaiting[a]

\* C15: with updates taken one at a time, the store file changes only in the
\* save of a request that handles a text, no command and no menu label, whose
\* name is no key of the store, and such a request starts only for a sender
\* whose awaiting_name flag is set.  So /start, "Add Guest", "Show Guests",
\* a text from a user who is not asked for a name, a name that is in the
\* store already and a payload that is empty or has no "message" field
\* leave the store file as it is.
C15_StoreWrittenOnlyByNewName ==
    [][/\ file' # file =>
             \E r \in Reqs :
                 /\ pc[r] = "save" /\ pc'[r] # "save"
                 /\ update[r].kind = "message"
                 /\ ~IsCommand(update[r].text)
                 /\ Text(r) \notin {AddGuestLabel, ShowGuestsLabel}
                 /\ Text(r) \notin Keys(file.items)
       /\ \A r \in Reqs :
             (pc[r] = "idle" /\ pc'[r] # "idle") =>
                 awaiting[update'[r].user]
       /\ \A r \in Reqs :
             (pc[r] = "idle" /\ returned'.req = r) => file' = file
       /\ \A r \in Reqs :
             (pc[r] = "reply" /\ Text(r) \in Keys(guests[r].items)) =>
                 file' = file]_vars

\* The first name entry has created the store file.
C15_Witness ==
    \E r \in Reqs :
        /\ Miss(r)
        /\ guests[r].items = <<>>
        /\ file = ObjectFile(<<NewEntry(Text(r))>>)
        /\ ~awaiting[Chat(r)]

\* C16: with updates taken one at a time, when the store file holds text
\* that is not JSON, a name entry for N loads the empty mapping and goes on
\* to issue a QR code, and its save replaces the file by a mapping whose one
\* entry is that of N: what the file held is gone, and nothing reports it.
C16_MalformedStoreReplaced ==
    [][\A r \in Reqs :
          /\ \A u \in Users, t \in Texts :
                (file.kind = "unparseable" /\ NameEntry(r, u, t)) =>
                    /\ pc'[r] = "image"
                    /\ guests'[r] =
                          [exc |-> "none", type |-> "dict", items |-> <<>>]
                    /\ file' = file
          /\ (file.kind = "unparseable" /\ pc[r] = "save"
                 /\ pc'[r] = "reply") =>
                file' =
                    [kind |-> "object",
                     items |-> <<[name |-> Text(r),
                                  qr_file |-> <<"qrcodes/">> \o
                                      ReplaceSpaces(Text(r)) \o <<".png">>,
                                  checked_in |-> FALSE]>>]]_vars

\* A name has been saved by a request that loaded the empty mapping, and
\* the store, which held a guest at the start (her image is on disk), is
\* the new entry alone: a failed save had left the file cut short, and the
\* next add has replaced it.
C16_Witness ==
    \E r \in Reqs :
        /\ Miss(r)
        /\ guests[r].items = <<>>
        /\ file = ObjectFile(<<NewEntry(Text(r))>>)
        /\ PriorGuest.qr_file \in DOMAIN images

\* The last exchange was a text of user u, no command and no menu label,
\* whose handler raised.
NameFailed(u) ==
    /\ returned.outcome = "failed"
    /\ returned.update.kind = "message"
    /\ returned.update.user = u
    /\ ~IsCommand(returned.update.text)
    /\ Strip(returned.update.text) \notin {AddGuestLabel, ShowGuestsLabel}

\* C17: with updates taken one at a time, the step that takes up a name
\* clears its sender's flag before anything is written or sent, the flag
\* stays cleared through the image write, the save and the replies and when
\* one of them raises, and after such a failure the sender's next text that
\* is no command and no menu label is answered with "Invalid option."
\* (when the reply goes out) and starts no QR issue.
C17_FailedAddLeavesIdle ==
    [][/\ \A r \in Reqs, u \in Users, t \in Texts :
             (awaiting[u] /\ ~IsCommand(t)
                 /\ Strip(t) \notin {AddGuestLabel, ShowGuestsLabel}
                 /\ MessageFrom(r, u, t)) =>
                 /\ ~awaiting'[u]
                 /\ returned'.sent = <<>>
                 /\ file' = file /\ images' = images
       /\ \A r \in Reqs :
             pc[r] \in {"image", "save", "reply"} =>
                 /\ ~awaiting[Chat(r)]
                 /\ ~awaiting'[Chat(r)]
       /\ \A r \in Reqs, u \in Users, t \in Texts :
             (NameFailed(u) /\ ~IsCommand(t)
                 /\ Strip(t) \notin {AddGuestLabel, ShowGuestsLabel}
                 /\ MessageFrom(r, u, t)) =>
                   /\ ~awaiting[u] /\ ~awaiting'[u]
                   /\ pc'[r] = "idle" /\ returned'.req = r
                   /\ file' = file /\ images' = images
                   /\ returned'.outcome = "done" =>
                         returned'.sent =
                             <<[chat |-> u, type |-> "text",
                                body |-> InvalidOptionText]>>]_vars

\* A name entry got its confirmation, the image reply raised, and the
\* sender is not asked for a name.
C17_Witness ==
    \E u \in Users :
        /\ NameFailed(u)
        /\ Len(returned.sent) = 1
        /\ returned.sent[1].body = AddedText(Strip(returned.update.text))
        /\ ~awaiting[u]

\* The last exchange handled a text that is no command and no menu label,
\* ran its handler to the end and did not answer "Invalid option.": a name
\* entry was completed.
EntryCompleted ==
    /\ Completed
    /\ returned.update.kind = "message"
    /\ ~IsCommand(returned.update.text)
    /\ Strip(returned.update.text) \notin {AddGuestLabel, ShowGuestsLabel}
    /\ returned.sent #
          <<[chat |-> returned.update.user, type |-> "text",
             body |-> InvalidOptionText]>>

\* C18: with updates taken one at a time, a completed name entry, of a new
\* name or of one that was in the store, has sent exactly a confirmation
\* and the image to the sender and then one "Guest Added" announcement to
\* the group; an exchange sends an announcement only so; and the number of
\* announcements sent equals the number of name entries completed.
C18_OneAnnouncementPerEntry ==
    /\ tally.announced = tally.entered
    /\ (EntryCompleted
          \/ \E i \in 1..Len(returned.sent) :
                returned.sent[i].chat = GROUP_ID) =>
          LET u == returned.update.user
              N == Strip(returned.update.text)
          IN  /\ EntryCompleted
              /\ returned.sent =
                    <<[chat |-> u, type |-> "text", body |-> AddedText(N)],
                      [chat |-> u, type |-> "photo",
                       body |-> <<"qrcodes/">> \o ReplaceSpaces(N) \o
                                    <<".png">>],
                      [chat |-> GROUP_ID, type |-> "text",
                       body |-> GroupText(N)]>>

\* A name entry has been completed and more announcements have been sent
\* than the store has entries.
C18_Witness ==
    /\ EntryCompleted
    /\ file.kind = "object"
    /\ Strip(returned.update.text) \in Keys(file.items)
    /\ tally.on
    /\ tally.announced > Len(file.items)

\* C19: with updates taken one at a time, two names of the store that
\* differ only in spaces and underscores are two entries with one qr_file,
\* and the image at that path encodes the name that was added last, no
\* longer the name of the earlier entry that points to it.
C19_PathSharedByNames ==
    \A i, j \in 1..Len(file.items) :
        (i < j /\ file.items[i].name # file.items[j].name
            /\ ReplaceSpaces(file.items[i].name) =
                  ReplaceSpaces(file.items[j].name)) =>
            /\ file.items[i].qr_file = file.items[j].qr_file
            /\ file.items[j].qr_file \in DOMAIN images
            /\ images[file.items[j].qr_file] =
                  <<"Guest: ">> \o file.items[j].name
            /\ images[file.items[i].qr_file] #
                  <<"Guest: ">> \o file.items[i].name

\* The store holds "a b" and "a_b" as two entries with the same qr_file.
C19_Witness ==
    /\ file.kind = "object"
    /\ Keys(file.items) = {<<"a", " ", "b">>, <<"a", "_", "b">>}
    /\ Len(file.items) = 2
    /\ file.items[1].qr_file = file.items[2].qr_file
    /\ images[file.items[1].qr_file] = QrData(file.items[2].name)

====
